---- MODULE Spec2Model ----
(***************************************************************************)
(* Model of src/app.py: the gold "decision radar".                         *)
(*                                                                         *)
(*   get_financial_data  downloads five hourly price histories and keeps   *)
(*                       the non-empty ones in a dict                      *)
(*   calculate_signal    turns the dict into (score, reasons)              *)
(*   main                fetches, scores and renders the dashboard         *)
(*                                                                         *)
(* A DataFrame is modelled by its 'Close' column, a sequence of integer    *)
(* closes.  pandas computes in IEEE doubles; the model keeps the three     *)
(* kinds of double the program can produce (a number, an infinity, NaN)    *)
(* and does the arithmetic on numbers exactly, as fractions n/d with       *)
(* d > 0.  Rounding of doubles is not modelled.                            *)
(***************************************************************************)
EXTENDS Integers, Sequences, FiniteSets

VARIABLES
    pc,        \* where the run of main is
    data,      \* data_store: ticker name -> Close column (present names only)
    errors,    \* names for which get_financial_data called st.error
    news,      \* news_items
    score,     \* calculate_signal: score
    reasons,   \* calculate_signal: reasons
    ma50,      \* calculate_signal: ma50   (Unset until computed)
    rsi,       \* calculate_signal: rsi    (Unset until computed)
    dxy_prev,  \* calculate_signal: dxy_prev (Unset until computed)
    shown      \* what main has displayed so far, in order

vars == <<pc, data, errors, news, score, reasons, ma50, rsi, dxy_prev, shown>>

-----------------------------------------------------------------------------
(* Program constants *)

MA_WINDOW == 50
RSI_PERIOD == 14
RSI_OVERSOLD == 30
RSI_OVERBOUGHT == 70
DXY_LOOKBACK == 24
VIX_FEAR == 20
VIX_CALM == 13

Gold == "Gold"
DXY == "DXY"
TNX == "TNX"
VIX == "VIX"
SPX == "SPX"

tickers == {Gold, DXY, TNX, VIX, SPX}

-----------------------------------------------------------------------------
(* Doubles: [k |-> "num", n, d] is n/d with d > 0; "inf" carries its sign  *)
(* in n; "nan" is not-a-number; "unset" marks a local not yet assigned.    *)

Num(x) == [k |-> "num", n |-> x, d |-> 1]
NaN == [k |-> "nan", n |-> 0, d |-> 1]
Inf(sign) == [k |-> "inf", n |-> sign, d |-> 1]
Unset == [k |-> "unset", n |-> 0, d |-> 1]

Sign(x) == IF x > 0 THEN 1 ELSE IF x < 0 THEN -1 ELSE 0

\* a < b on doubles: false as soon as one side is NaN
FLt(a, b) ==
    CASE a.k = "num" /\ b.k = "num" -> a.n * b.d < b.n * a.d
      [] a.k = "num" /\ b.k = "inf" -> b.n > 0
      [] a.k = "inf" /\ b.k = "num" -> a.n < 0
      [] a.k = "inf" /\ b.k = "inf" -> a.n < b.n
      [] OTHER -> FALSE

FGt(a, b) == FLt(b, a)

\* a == b on doubles (NaN equals nothing)
FEq(a, b) ==
    CASE a.k = "num" /\ b.k = "num" -> a.n * b.d = b.n * a.d
      [] a.k = "inf" /\ b.k = "inf" -> a.n = b.n
      [] OTHER -> FALSE

FNeg(a) == IF a.k \in {"num", "inf"} THEN [a EXCEPT !.n = -a.n] ELSE a

FAdd(a, b) ==
    CASE a.k = "num" /\ b.k = "num" ->
             [k |-> "num", n |-> a.n * b.d + b.n * a.d, d |-> a.d * b.d]
      [] a.k = "inf" /\ b.k = "num" -> a
      [] a.k = "num" /\ b.k = "inf" -> b
      [] a.k = "inf" /\ b.k = "inf" -> IF a.n = b.n THEN a ELSE NaN
      [] OTHER -> NaN

FSub(a, b) == FAdd(a, FNeg(b))

\* a / b on doubles: x/0 is an infinity, 0/0 is NaN, x/inf is 0
FDiv(a, b) ==
    CASE a.k = "num" /\ b.k = "num" ->
             IF b.n = 0
             THEN IF a.n = 0 THEN NaN ELSE Inf(Sign(a.n))
             ELSE [k |-> "num", n |-> a.n * b.d * Sign(b.n),
                                d |-> a.d * b.n * Sign(b.n)]
      [] a.k = "num" /\ b.k = "inf" -> Num(0)
      [] a.k = "inf" /\ b.k = "num" -> Inf(IF b.n < 0 THEN -a.n ELSE a.n)
      [] OTHER -> NaN

-----------------------------------------------------------------------------
(* pandas Series operations used by calculate_signal *)

\* s.iloc[i]: i >= 0 counts from the start, i < 0 from the end
ILoc(s, i) == IF i < 0 THEN s[Len(s) + 1 + i] ELSE s[i + 1]

\* s.diff(): the first element has no predecessor and is NaN
Diff(s) == [i \in 1..Len(s) |-> IF i = 1 THEN NaN ELSE Num(s[i] - s[i - 1])]

\* delta.where(delta > 0, 0): keeps an element where the condition is true,
\* puts 0 where it is false (NaN > 0 is false)
WherePositive(delta) ==
    [i \in 1..Len(delta) |-> IF FGt(delta[i], Num(0)) THEN delta[i] ELSE Num(0)]

\* delta.where(delta < 0, 0)
WhereNegative(delta) ==
    [i \in 1..Len(delta) |-> IF FLt(delta[i], Num(0)) THEN delta[i] ELSE Num(0)]

\* unary minus on a Series
SeriesNeg(x) == [i \in 1..Len(x) |-> FNeg(x[i])]

\* the sum of x[lo..hi] (summed by halves)
RECURSIVE FSum(_, _, _)
FSum(x, lo, hi) ==
    IF lo > hi THEN Num(0)
    ELSE IF lo = hi THEN x[lo]
    ELSE LET mid == (lo + hi) \div 2
         IN  FAdd(FSum(x, lo, mid), FSum(x, mid + 1, hi))

\* x.rolling(w).mean().iloc[-1]: NaN unless the window holds w numbers
RollingMeanLast(x, w) ==
    IF Len(x) < w \/ \E i \in (Len(x) - w + 1)..Len(x) : x[i].k = "nan"
    THEN NaN
    ELSE FDiv(FSum(x, Len(x) - w + 1, Len(x)), Num(w))

\* a Close column as a Series of doubles
AsFloats(s) == [i \in 1..Len(s) |-> Num(s[i])]

-----------------------------------------------------------------------------
(* calculate_signal *)

\* data.get(name) is not None
Present(d, name) == name \in DOMAIN d

\* lines 65-69: the "simple RSI(14)".  The negated column holds -0.0 where
\* the model holds 0; a zero loss of either sign gives rs = +-inf or NaN and
\* the same rsi (100 or NaN), so the sign of zero is not kept.
GainMean(close) == RollingMeanLast(WherePositive(Diff(close)), RSI_PERIOD)
LossMean(close) == RollingMeanLast(SeriesNeg(WhereNegative(Diff(close))), RSI_PERIOD)

RSI(close) ==
    LET rs == FDiv(GainMean(close), LossMean(close))
    IN  FSub(Num(100), FDiv(Num(100), FAdd(Num(1), rs)))

\* MaRule with the first branch's score line copied into the second
MaRuleCopied(acc, current_price, ma) ==
    IF FGt(current_price, ma)
    THEN [acc EXCEPT !.score = @ + 2, !.reasons = Append(@, "MA_ABOVE")]
    ELSE [acc EXCEPT !.score = @ + 2, !.reasons = Append(@, "MA_BELOW")]

\* lines 71-76
MaRule(acc, current_price, ma) ==
    IF FGt(current_price, ma)
    THEN [acc EXCEPT !.score = @ + 2, !.reasons = Append(@, "MA_ABOVE")]
    ELSE [acc EXCEPT !.score = @ - 2, !.reasons = Append(@, "MA_BELOW")]

\* lines 78-83
RsiRule(acc, r) ==
    IF FLt(r, Num(RSI_OVERSOLD))
    THEN [acc EXCEPT !.score = @ + 1, !.reasons = Append(@, "RSI_OVERSOLD")]
    ELSE IF FGt(r, Num(RSI_OVERBOUGHT))
    THEN [acc EXCEPT !.score = @ - 1, !.reasons = Append(@, "RSI_OVERBOUGHT")]
    ELSE acc

\* lines 59-83; .iloc[-1] of an empty column raises IndexError
GoldBlock(d, acc) ==
    IF acc.raised \/ ~Present(d, Gold) THEN acc
    ELSE LET close == d[Gold] IN
         IF Len(close) = 0 THEN [acc EXCEPT !.raised = TRUE]
         ELSE LET current_price == Num(ILoc(close, -1))
                  ma == RollingMeanLast(AsFloats(close), MA_WINDOW)
                  r == RSI(close)
                  a0 == [acc EXCEPT !.ma50 = ma, !.rsi = r]
              IN  RsiRule(MaRule(a0, current_price, ma), r)

\* line 90
DxyPrev(close) ==
    IF Len(close) > DXY_LOOKBACK THEN ILoc(close, -DXY_LOOKBACK) ELSE ILoc(close, 0)

\* lines 92-97
DxyRule(acc, dxy_now, prev) ==
    IF FLt(dxy_now, prev)
    THEN [acc EXCEPT !.score = @ + 2, !.reasons = Append(@, "DXY_WEAK")]
    ELSE [acc EXCEPT !.score = @ - 2, !.reasons = Append(@, "DXY_STRONG")]

\* DxyBlock with the lookup data[...] for data.get(...): KeyError when absent
DxyBlockIndexed(d, acc) ==
    IF acc.raised THEN acc
    ELSE IF ~Present(d, DXY) THEN [acc EXCEPT !.raised = TRUE]
    ELSE LET close == d[DXY] IN
         IF Len(close) = 0 THEN [acc EXCEPT !.raised = TRUE]
         ELSE LET dxy_now == Num(ILoc(close, -1))
                  prev == Num(DxyPrev(close))
              IN  DxyRule([acc EXCEPT !.dxy_prev = prev], dxy_now, prev)

\* lines 86-97
DxyBlock(d, acc) ==
    IF acc.raised \/ ~Present(d, DXY) THEN acc
    ELSE LET close == d[DXY] IN
         IF Len(close) = 0 THEN [acc EXCEPT !.raised = TRUE]
         ELSE LET dxy_now == Num(ILoc(close, -1))
                  prev == Num(DxyPrev(close))
              IN  DxyRule([acc EXCEPT !.dxy_prev = prev], dxy_now, prev)

\* VixRule with >= for > at the upper threshold
VixRuleInclusive(acc, vix_now) ==
    IF FGt(vix_now, Num(VIX_FEAR)) \/ FEq(vix_now, Num(VIX_FEAR))
    THEN [acc EXCEPT !.score = @ + 2, !.reasons = Append(@, "VIX_HIGH")]
    ELSE IF FLt(vix_now, Num(VIX_CALM))
    THEN [acc EXCEPT !.score = @ - 1, !.reasons = Append(@, "VIX_LOW")]
    ELSE acc

\* VixRule with the high-fear weight mistyped as 3
VixRuleHeavy(acc, vix_now) ==
    IF FGt(vix_now, Num(VIX_FEAR))
    THEN [acc EXCEPT !.score = @ + 3, !.reasons = Append(@, "VIX_HIGH")]
    ELSE IF FLt(vix_now, Num(VIX_CALM))
    THEN [acc EXCEPT !.score = @ - 1, !.reasons = Append(@, "VIX_LOW")]
    ELSE acc

\* lines 103-108
VixRule(acc, vix_now) ==
    IF FGt(vix_now, Num(VIX_FEAR))
    THEN [acc EXCEPT !.score = @ + 2, !.reasons = Append(@, "VIX_HIGH")]
    ELSE IF FLt(vix_now, Num(VIX_CALM))
    THEN [acc EXCEPT !.score = @ - 1, !.reasons = Append(@, "VIX_LOW")]
    ELSE acc

\* lines 100-108
VixBlock(d, acc) ==
    IF acc.raised \/ ~Present(d, VIX) THEN acc
    ELSE LET close == d[VIX] IN
         IF Len(close) = 0 THEN [acc EXCEPT !.raised = TRUE]
         ELSE VixRule(acc, Num(ILoc(close, -1)))

\* lines 55-56
Acc0 ==
    [raised |-> FALSE, score |-> 0, reasons |-> <<>>,
     ma50 |-> Unset, rsi |-> Unset, dxy_prev |-> Unset]

\* lines 54-110
calculate_signal(d) == VixBlock(d, DxyBlock(d, GoldBlock(d, Acc0)))

-----------------------------------------------------------------------------
(* main: the label of a score *)

\* Label with > for >= at the upper boundary
LabelStrict(s) ==
    IF s > 3 THEN "STRONG_BUY"
    ELSE IF s > 0 THEN "LEAN_BUY"
    ELSE IF s <= -3 THEN "STRONG_SELL"
    ELSE "HOLD"

\* lines 143-150
Label(s) ==
    IF s >= 3 THEN "STRONG_BUY"
    ELSE IF s > 0 THEN "LEAN_BUY"
    ELSE IF s <= -3 THEN "STRONG_SELL"
    ELSE "HOLD"

-----------------------------------------------------------------------------
(* Price histories the download can return.  The shapes put a free value   *)
(* at every position a rule reads and a constant run everywhere else.      *)

GoldMaxClose == 3   \* Gold closes range over 1..GoldMaxClose
MaxExtra == 1       \* samples beyond a rule's window
VixMargin == 2      \* VIX closes range VixMargin beyond both thresholds

Rep(v, n) == [i \in 1..n |-> v]
LastN(s, n) == SubSeq(s, Len(s) - n + 1, Len(s))

\* n closes: h up to the RSI window, then RSI_PERIOD closes p, then t1, t2
GoldShape(n, h, p, t1, t2) == LastN(Rep(h, n) \o Rep(p, RSI_PERIOD) \o <<t1, t2>>, n)

GoldFamily(lens, closes) ==
    {GoldShape(n, h, p, t1, t2) : n \in lens, h \in closes, p \in closes,
                                  t1 \in closes, t2 \in closes}

\* n closes, from the end: d latest, c for the DXY_LOOKBACK - 2 before it,
\* b at iloc[-DXY_LOOKBACK], a before that
DxyShape(n, a, b, c, d) ==
    LastN(Rep(a, n) \o <<b>> \o Rep(c, DXY_LOOKBACK - 2) \o <<d>>, n)

DxyFamily(lens, closes) ==
    {DxyShape(n, a, b, c, d) : n \in lens, a \in closes, b \in closes,
                               c \in closes, d \in closes}

DxyCloses == {100, 105}
VixCloses == (VIX_CALM - VixMargin)..(VIX_FEAR + VixMargin)

GoldLens ==
    {1, 2, RSI_PERIOD - 1, RSI_PERIOD, RSI_PERIOD + 1, MA_WINDOW - 1}
        \cup (MA_WINDOW..(MA_WINDOW + MaxExtra))
DxyLens ==
    {1, 2, DXY_LOOKBACK} \cup ((DXY_LOOKBACK + 1)..(DXY_LOOKBACK + 1 + MaxExtra))

\* every history of one instrument
GoldAll == GoldFamily(GoldLens, 1..GoldMaxClose)
DxyAll == DxyFamily(DxyLens, DxyCloses)
VixAll == {<<v>> : v \in VixCloses} \cup {<<w, v>> : w \in VixCloses, v \in VixCloses}

\* fewer histories of each, for the runs that combine the instruments
GoldSome == GoldFamily({1, RSI_PERIOD, MA_WINDOW}, 1..GoldMaxClose)
DxySome == DxyFamily({1, DXY_LOOKBACK + 1}, DxyCloses)
VixSome == {<<v>> : v \in {VIX_CALM - 1, VIX_CALM, VIX_FEAR, VIX_FEAR + 1}}
OtherSome == {<<4>>}

\* the outcome of one yf.download: an exception, an empty frame, or a history
Failed == [st |-> "fail", close |-> <<>>]
Empty == [st |-> "empty", close |-> <<>>]
Ok(family) == {[st |-> "ok", close |-> s] : s \in family}

\* lines 22-32: the dict keeps the non-empty frames
Store(o) == [name \in {t \in tickers : o[t].st = "ok"} |-> o[name].close]

\* the names whose download raised (line 31)
Raised(o) == {t \in tickers : o[t].st = "fail"}

\* one outcome per ticker of lines 14-20
Outcomes(g, d, t, v, s) ==
    [name \in tickers |->
        IF name = Gold THEN g ELSE IF name = DXY THEN d
        ELSE IF name = TNX THEN t ELSE IF name = VIX THEN v ELSE s]

-----------------------------------------------------------------------------
(* One run of main *)

Init ==
    /\ pc = "start"
    /\ data = <<>>
    /\ errors = {}
    /\ news = <<>>
    /\ score = 0
    /\ reasons = <<>>
    /\ ma50 = Unset
    /\ rsi = Unset
    /\ dxy_prev = Unset
    /\ shown = <<>>

\* histories the run of main draws from
GoldFew == {GoldShape(n, p, p, t1, t2) : n \in {1, 2, MA_WINDOW}, p \in 1..2,
                                         t1 \in 1..2, t2 \in 1..2}
DxyFew == {DxyShape(n, a, a, d, d) : n \in {1, DXY_LOOKBACK + 1}, a \in DxyCloses,
                                     d \in DxyCloses}

\* lines 12-32 (called at line 127)
GetFinancialData ==
    /\ pc = "start"
    /\ \E g \in {Failed, Empty} \cup Ok(GoldFew),
          d \in {Failed, Empty} \cup Ok(DxyFew),
          t \in {Failed, Empty} \cup Ok(OtherSome),
          v \in {Failed, Empty} \cup Ok(VixSome),
          s \in {Failed, Empty} \cup Ok(OtherSome) :
            /\ data' = Store(Outcomes(g, d, t, v, s))
            /\ errors' = Raised(Outcomes(g, d, t, v, s))
    /\ pc' = "fetched"
    /\ UNCHANGED <<news, score, reasons, ma50, rsi, dxy_prev, shown>>

\* lines 36-51 (called at line 128): the items of the feeds, in order
GetNews ==
    /\ pc = "fetched"
    /\ \E items \in {<<>>, <<"NEWS_ITEM">>} : news' = items
    /\ pc' = "news"
    /\ UNCHANGED <<data, errors, score, reasons, ma50, rsi, dxy_prev, shown>>

\* lines 54-110 (called at line 129)
CalculateSignal ==
    /\ pc = "news"
    /\ \E res \in {calculate_signal(data)} :
        /\ pc' = IF res.raised THEN "raised" ELSE "scored"
        /\ score' = res.score
        /\ reasons' = res.reasons
        /\ ma50' = res.ma50
        /\ rsi' = res.rsi
        /\ dxy_prev' = res.dxy_prev
    /\ UNCHANGED <<data, errors, news, shown>>

\* data[name]['Close'].iloc[-1] and .iloc[-2]: KeyError when the name is not
\* in the dict, IndexError when the column has a single sample
HasTwoCloses(d, name) == name \in DOMAIN d /\ Len(d[name]) >= 2

\* lines 135-138
RenderGoldMetric ==
    /\ pc = "scored"
    /\ IF HasTwoCloses(data, Gold)
       THEN pc' = "col1" /\ shown' = Append(shown, "GOLD_METRIC")
       ELSE pc' = "crashed" /\ shown' = shown
    /\ UNCHANGED <<data, errors, news, score, reasons, ma50, rsi, dxy_prev>>

\* lines 140-150
RenderAdvice ==
    /\ pc = "col1"
    /\ shown' = Append(shown, Label(score))
    /\ pc' = "col2"
    /\ UNCHANGED <<data, errors, news, score, reasons, ma50, rsi, dxy_prev>>

\* lines 152-155
RenderDxyMetric ==
    /\ pc = "col2"
    /\ IF HasTwoCloses(data, DXY)
       THEN pc' = "col3" /\ shown' = Append(shown, "DXY_METRIC")
       ELSE pc' = "crashed" /\ shown' = shown
    /\ UNCHANGED <<data, errors, news, score, reasons, ma50, rsi, dxy_prev>>

\* lines 158-160
RenderReasons ==
    /\ pc = "col3"
    /\ shown' = shown \o reasons
    /\ pc' = "reasons"
    /\ UNCHANGED <<data, errors, news, score, reasons, ma50, rsi, dxy_prev>>

\* lines 167-184: the chart of the two columns, then the news items
RenderChartAndNews ==
    /\ pc = "reasons"
    /\ shown' = Append(shown, "CHART") \o news
    /\ pc' = "done"
    /\ UNCHANGED <<data, errors, news, score, reasons, ma50, rsi, dxy_prev>>

Next ==
    \/ GetFinancialData
    \/ GetNews
    \/ CalculateSignal
    \/ RenderGoldMetric
    \/ RenderAdvice
    \/ RenderDxyMetric
    \/ RenderReasons
    \/ RenderChartAndNews

Spec == Init /\ [][Next]_vars

-----------------------------------------------------------------------------
(* calculate_signal alone, applied to every dict of the families *)

Stores(G, D, T, V, S) ==
    {Store(Outcomes(g, d, t, v, s)) : g \in G, d \in D, t \in T, v \in V, s \in S}

SignalInputs ==
    Stores(Ok(GoldAll), {Empty}, {Empty}, {Empty}, {Empty})
        \cup Stores({Empty}, Ok(DxyAll), {Empty}, {Empty}, {Empty})
        \cup Stores({Empty}, {Empty}, {Empty}, Ok(VixAll), {Empty})
        \cup Stores({Empty} \cup Ok(GoldSome), {Empty} \cup Ok(DxySome),
                    {Empty} \cup Ok(OtherSome), {Empty} \cup Ok(VixSome),
                    {Empty} \cup Ok(OtherSome))

InitSignal ==
    /\ pc = "news"
    /\ data \in SignalInputs
    /\ errors = {}
    /\ news = <<>>
    /\ score = 0
    /\ reasons = <<>>
    /\ ma50 = Unset
    /\ rsi = Unset
    /\ dxy_prev = Unset
    /\ shown = <<>>

SpecSignal == InitSignal /\ [][CalculateSignal]_vars

-----------------------------------------------------------------------------
(* Vocabulary of the properties *)

MaReasons == {"MA_ABOVE", "MA_BELOW"}
RsiReasons == {"RSI_OVERSOLD", "RSI_OVERBOUGHT"}
GoldReasons == MaReasons \cup RsiReasons
DxyReasons == {"DXY_WEAK", "DXY_STRONG"}
VixReasons == {"VIX_HIGH", "VIX_LOW"}
Labels == {"STRONG_BUY", "LEAN_BUY", "STRONG_SELL", "HOLD"}

\* the score delta the rule table gives each reason
RuleDelta(r) ==
    CASE r = "MA_ABOVE" -> 2
      [] r = "MA_BELOW" -> -2
      [] r = "RSI_OVERSOLD" -> 1
      [] r = "RSI_OVERBOUGHT" -> -1
      [] r = "DXY_WEAK" -> 2
      [] r = "DXY_STRONG" -> -2
      [] r = "VIX_HIGH" -> 2
      [] r = "VIX_LOW" -> -1

RECURSIVE SumDeltas(_)
SumDeltas(rs) == IF rs = <<>> THEN 0 ELSE RuleDelta(Head(rs)) + SumDeltas(Tail(rs))

Has(r) == \E i \in 1..Len(reasons) : reasons[i] = r
Count(S) == Cardinality({i \in 1..Len(reasons) : reasons[i] \in S})
Without(S) == SelectSeq(reasons, LAMBDA r : r \notin S)

Latest(name) == data[name][Len(data[name])]

\* sums of the rises and of the falls over the last RSI_PERIOD differences
RECURSIVE Rises(_, _, _)
Rises(s, lo, hi) ==
    IF lo > hi THEN 0
    ELSE (IF s[lo] > s[lo - 1] THEN s[lo] - s[lo - 1] ELSE 0) + Rises(s, lo + 1, hi)
RECURSIVE Falls(_, _, _)
Falls(s, lo, hi) ==
    IF lo > hi THEN 0
    ELSE (IF s[lo] < s[lo - 1] THEN s[lo - 1] - s[lo] ELSE 0) + Falls(s, lo + 1, hi)
WindowRises(s) == Rises(s, Len(s) - RSI_PERIOD + 1, Len(s))
WindowFalls(s) == Falls(s, Len(s) - RSI_PERIOD + 1, Len(s))

-----------------------------------------------------------------------------
(* C1: calculate_signal returns for every subset of Gold, DXY and VIX      *)
(* being absent; an absent instrument adds no reason and no score, the     *)
(* rules of the present ones are still evaluated, and with all three       *)
(* absent the result is score 0 and no reasons.                            *)
C1_AbsentInstrumentsSkipped ==
    pc \in {"scored", "raised"} =>
        /\ pc = "scored"
        /\ ~Present(data, Gold) => Count(GoldReasons) = 0
        /\ ~Present(data, DXY) => Count(DxyReasons) = 0
        /\ ~Present(data, VIX) => Count(VixReasons) = 0
        /\ score = SumDeltas(reasons)
        /\ (Present(data, Gold) /\ Len(data[Gold]) >= MA_WINDOW) => Count(MaReasons) = 1
        /\ Present(data, DXY) => Count(DxyReasons) = 1
        /\ (Present(data, VIX) /\ Latest(VIX) > VIX_FEAR) => Has("VIX_HIGH")
        /\ (Present(data, VIX) /\ Latest(VIX) < VIX_CALM) => Has("VIX_LOW")
        /\ (~Present(data, Gold) /\ ~Present(data, DXY) /\ ~Present(data, VIX))
               => (score = 0 /\ reasons = <<>>)

C1_Witness ==
    /\ pc = "scored"
    /\ ~Present(data, Gold) /\ ~Present(data, DXY) /\ Present(data, VIX)
    /\ reasons = <<"VIX_HIGH">> /\ score = 2

(* C2: with a Gold history shorter than the 50-sample window neither       *)
(* moving-average rule fires.                                              *)
C2_NoMaRuleWhenShort ==
    (pc = "scored" /\ Present(data, Gold) /\ Len(data[Gold]) < MA_WINDOW)
        => Count(MaReasons) = 0

(* C3: with fewer than 15 Gold samples the RSI is unavailable and neither  *)
(* RSI rule fires, 14 samples included.                                    *)
C3_NoRsiRuleWhenShort ==
    (pc = "scored" /\ Present(data, Gold) /\ Len(data[Gold]) < RSI_PERIOD + 1)
        => (rsi.k = "nan" /\ Count(RsiReasons) = 0)

(* C4: with enough Gold data the RSI is 100 when the average loss is 0 and *)
(* the average gain positive, 50 when both are 0 (no RSI rule fires then), *)
(* and a zero average loss never gives an undefined value.                 *)
C4_RsiZeroLoss ==
    (pc = "scored" /\ Present(data, Gold) /\ Len(data[Gold]) >= RSI_PERIOD + 1) =>
        LET G == WindowRises(data[Gold])
            L == WindowFalls(data[Gold])
        IN  /\ (L = 0 /\ G > 0) => FEq(rsi, Num(100))
            /\ (L = 0 /\ G = 0) => (FEq(rsi, Num(50)) /\ Count(RsiReasons) = 0)
            /\ L = 0 => rsi.k = "num"

(* C5: the dollar rule compares the latest close with the close 24 samples *)
(* before it when there are at least 25 samples, else with the first       *)
(* sample; +2 iff the latest is strictly below it, -2 otherwise.           *)
C5_DxyReference ==
    (pc = "scored" /\ Present(data, DXY)) =>
        LET s == data[DXY]
            n == Len(s)
            ref == IF n >= DXY_LOOKBACK + 1 THEN s[n - DXY_LOOKBACK] ELSE s[1]
        IN  /\ FEq(dxy_prev, Num(ref))
            /\ Has("DXY_WEAK") <=> s[n] < ref
            /\ Has("DXY_STRONG") <=> ~(s[n] < ref)

\* the rules that fired, counted from the conditions of the code
FiredCount ==
    (IF Present(data, Gold)
     THEN 1 + (IF FLt(rsi, Num(RSI_OVERSOLD)) \/ FGt(rsi, Num(RSI_OVERBOUGHT))
               THEN 1 ELSE 0)
     ELSE 0)
    + (IF Present(data, DXY) THEN 1 ELSE 0)
    + (IF Present(data, VIX) /\ (Latest(VIX) > VIX_FEAR \/ Latest(VIX) < VIX_CALM)
       THEN 1 ELSE 0)

(* C6: the score is the sum of the deltas of exactly the rules whose       *)
(* reasons are returned, and there is one reason per rule that fired.      *)
C6_ScoreIsSumOfReasons ==
    pc = "scored" =>
        /\ score = SumDeltas(reasons)
        /\ Len(reasons) = FiredCount
        /\ \A i, j \in 1..Len(reasons) : reasons[i] = reasons[j] => i = j

C6_Witness ==
    /\ pc = "scored"
    /\ reasons = <<"MA_BELOW", "RSI_OVERBOUGHT", "DXY_WEAK", "VIX_LOW">>
    /\ score = -2

(* C7: VIX adds +2 with the high-fear reason iff the latest close is above *)
(* 20, -1 with the complacency reason iff it is below 13, and nothing for  *)
(* a latest close in [13, 20], both ends included.                         *)
C7_VixThresholds ==
    (pc = "scored" /\ Present(data, VIX)) =>
        LET v == Latest(VIX)
            part == score - SumDeltas(Without(VixReasons))
        IN  /\ Has("VIX_HIGH") <=> v > VIX_FEAR
            /\ Has("VIX_LOW") <=> v < VIX_CALM
            /\ Count(VixReasons) <= 1
            /\ part = (IF v > VIX_FEAR THEN 2 ELSE IF v < VIX_CALM THEN -1 ELSE 0)

C7_Witness ==
    /\ pc = "scored" /\ Present(data, VIX)
    /\ Latest(VIX) = VIX_FEAR
    /\ Count(VixReasons) = 0 /\ score = 0

MaxAbsScore == 10   \* the labels are also checked on -MaxAbsScore..MaxAbsScore

\* the label the boundaries of the specification give a score
LabelOf(s) ==
    CASE s >= 3 -> "STRONG_BUY"
      [] 0 < s /\ s < 3 -> "LEAN_BUY"
      [] s <= -3 -> "STRONG_SELL"
      [] -3 < s /\ s <= 0 -> "HOLD"

(* C8: the label is strong buy for score >= 3, lean buy for 0 < score < 3, *)
(* strong sell for score <= -3 and hold for -3 < score <= 0; every score   *)
(* gets exactly one label.                                                 *)
C8_LabelPartition ==
    /\ Len(shown) >= 2 =>
           (shown[2] = LabelOf(score) /\ Cardinality({i \in 1..Len(shown) : shown[i] \in Labels}) = 1)
    /\ \A s \in (-MaxAbsScore)..MaxAbsScore : Label(s) = LabelOf(s)

C8_Witness == pc = "col2" /\ score = 3 /\ shown = <<"GOLD_METRIC", "STRONG_BUY">>

\* every rule of every present instrument has its full window of samples
FullWindows ==
    /\ Present(data, Gold) => Len(data[Gold]) >= MA_WINDOW
    /\ Present(data, DXY) => Len(data[DXY]) >= DXY_LOOKBACK + 1

(* C9 as stated: the score always lies in [-5, +5].  Stated on the inputs  *)
(* with full windows, where no rule runs on a short history.               *)
C9_ScoreWithinFive == (pc = "scored" /\ FullWindows) => (-5 <= score /\ score <= 5)

(* C9 as amended: for every input the score lies in [-6, +7].              *)
C9_ScoreRange == pc = "scored" => (-6 <= score /\ score <= 7)

C9_Witness ==
    /\ pc = "scored" /\ FullWindows
    /\ score = 7
    /\ reasons = <<"MA_ABOVE", "RSI_OVERSOLD", "DXY_WEAK", "VIX_HIGH">>

(* C10: when one instrument (Gold or the Dollar Index in particular) is    *)
(* absent from the dict, the run of main is not aborted: it goes on to     *)
(* display the label and the reasons.                                      *)
C10_AbsenceDoesNotAbort ==
    ((tickers \ DOMAIN data) \in {{Gold}, {DXY}}
        /\ \A name \in {Gold, DXY} \cap DOMAIN data : Len(data[name]) >= 2)
        => pc # "crashed"

====
